---- MODULE Spec2Model ----
(***************************************************************************)
(* A model of src/train/sensorllm_trainer.py:                              *)
(*   unwrap_model, SensorLLMTrainer._save, SensorLLMTrainer.save_model,    *)
(*   SensorLLMWeightedCELossTrainer.__init__ and .compute_loss.            *)
(*                                                                         *)
(* Five specifications share the variables:                                *)
(*   Spec        one process: save_model, step by step, with every         *)
(*               argument, and the framework calling _save;                *)
(*   SpecDist    several processes running the sharded save_model;         *)
(*   SpecSave    one trainer, _save applied to every bounded snapshot;     *)
(*   SpecLoss    one weighted-loss trainer: construction, compute_loss and *)
(*               the save operations it inherits;                          *)
(*   SpecUnwrap  unwrap_model applied to every bounded wrapping relation.  *)
(***************************************************************************)
EXTENDS Integers, Sequences, FiniteSets, TLC

VARIABLES
    \* ---- the objects the trainer works on
    module,          \* module[m]: the model m wraps (its `module` attribute), or NoAttr
    params,          \* what a state_dict() of the model yields: a sequence of <<key, value>>
    fsdp,            \* TRUE iff self.fsdp is not None
    push_to_hub,     \* self.args.push_to_hub
    should_save,     \* should_save[p]: self.args.should_save on process p
    world,           \* the processes taking part in the run
    \* ---- SensorLLMWeightedCELossTrainer instance
    trainer,         \* "none", "base", "weighted", or "failed" (constructor raised)
    class_weights,   \* Unset, or Some(sequence)
    ctorArg,         \* the class_weights argument the constructor was called with
    \* ---- save_model / _save, per process
    pc,              \* position of process p inside save_model
    call,            \* arguments of p's current (or last) save_model call, as passed
    output_dir,      \* the local output_dir of save_model (after line 41-42)
    cpu_state_dict,  \* the local cpu_state_dict: <<>> or <<snapshot>>
    sdType,          \* state-dict type set on p's model ("DEFAULT" / "FULL_STATE_DICT")
    joined,          \* number of collective state_dict() calls p has entered
    returned,        \* number of collective state_dict() calls that returned on p
    trace,           \* what p's current (or last) save_model call did, in order
    saved,           \* <<>> or <<r>>: the last call of the base class's _save by p
    delegated,       \* <<>> or <<r>>: the last call of the base class's save_model by p
    \* ---- compute_loss
    lossCall,        \* <<>> or <<r>>: arguments of the last compute_loss call
    lossInputs,      \* the caller's inputs mapping, as it is after the call
    lossFwd,         \* <<>> or <<kwargs>>: what the forward pass received
    lossWeight,      \* <<>> or <<t>>: the weight tensor built at line 81
    lossRet,         \* <<>> or <<v>>: what compute_loss returned or raised
    \* ---- unwrap_model
    uwArg,           \* the argument of the last unwrap_model call
    uwRes            \* <<>> or <<r>>: its result

cfgVars  == <<module, params, fsdp, push_to_hub, should_save, world>>
ctorVars == <<trainer, class_weights, ctorArg>>
saveVars == <<pc, call, output_dir, cpu_state_dict, sdType, joined, returned,
              trace, saved, delegated>>
lossVars == <<lossCall, lossInputs, lossFwd, lossWeight, lossRet>>
uwVars   == <<uwArg, uwRes>>
vars     == <<cfgVars, ctorVars, saveVars, lossVars, uwVars>>

----------------------------------------------------------------------------
(* Bounds of the model *)

MaxModels == 4      \* model objects in the heap
MaxKeys   == 2      \* entries of a state snapshot
NumProcs  == 2      \* processes of a distributed run
MaxCalls  == 2      \* sharded save_model calls per process

Models == 1..MaxModels
Procs  == 1..NumProcs

----------------------------------------------------------------------------
(* Python values *)

None   == "None"                \* None where a string is expected
NoAttr == 0                     \* the model has no attribute `module`
Unset  == <<"Unset">>           \* attribute never assigned
NoneW  == <<"None">>            \* None where a sequence is expected
Some(x) == <<"Some", x>>

\* `sub in s` on Python strings (line 35)
StrContains(sub, s) ==
    \E i \in 1..(Len(s) - Len(sub) + 1) : SubSeq(s, i, i + Len(sub) - 1) = sub

----------------------------------------------------------------------------
(* unwrap_model, lines 9-20 *)

hasattr_module(model) == module[model] # NoAttr

\* A plausible slip: one level of wrapping removed, no recursion.
unwrap_model_once(model) ==
    IF hasattr_module(model)
    THEN [ret |-> module[model], steps |-> 1]
    ELSE [ret |-> model, steps |-> 0]

\* ret: the model returned; steps: how many times `.module` was followed.
RECURSIVE unwrap_model(_)
unwrap_model(model) ==
    IF hasattr_module(model)
    THEN LET r == unwrap_model(module[model])
         IN  [ret |-> r.ret, steps |-> r.steps + 1]
    ELSE [ret |-> model, steps |-> 0]

----------------------------------------------------------------------------
(* State snapshots *)

\* Parameter names a snapshot may hold.  Three contain the marker (as a
\* prefix, in the middle, as a suffix); two do not, one of them a near miss.
KeyUniverse ==
    { "pt_encoder_backbone.layer1.weight",
      "model.pt_encoder_backbone.proj",
      "llm.pt_encoder_backbone",
      "llm.layer1.weight",
      "pt_encoder_backbon.e" }

\* A Python dict in insertion order: a sequence of <<key, value>> with
\* pairwise distinct keys.  The value of the i-th entry is the tensor i.
DistinctKeys(ks) == \A i, j \in DOMAIN ks : i # j => ks[i] # ks[j]

KeySeqs == UNION { [1..n -> KeyUniverse] : n \in 0..MaxKeys }

StateDicts ==
    { [i \in DOMAIN ks |-> <<ks[i], i>>] : ks \in { k \in KeySeqs : DistinctKeys(k) } }

\* The snapshot one representative model holds in the distributed runs.
SampleParams ==
    << <<"pt_encoder_backbone.layer1.weight", 1>>, <<"llm.layer1.weight", 2>> >>

\* model.state_dict() on process p: the items, tagged with the model object
\* they were read from and the state-dict type in force at that moment.
StateDictOf(model, p) == [items |-> params, of |-> model, type |-> sdType[p]]

\* A snapshot handed in by the caller of _save.
Explicit(items) == [items |-> items, of |-> NoAttr, type |-> "explicit"]

\* self.model: the outermost object of the wrapping chain.
self_model == 1

----------------------------------------------------------------------------
(* SensorLLMTrainer._save, lines 25-37 *)

keys_to_match == << "pt_encoder_backbone" >>

\* A plausible slip: the marker is only looked for at the start of the key.
ExcludedPrefix(k) ==
    \E j \in 1..Len(keys_to_match) :
        /\ Len(keys_to_match[j]) <= Len(k)
        /\ SubSeq(k, 1, Len(keys_to_match[j])) = keys_to_match[j]

\* any(key_match in k for key_match in keys_to_match)
Excluded(k) ==
    \E j \in 1..Len(keys_to_match) : StrContains(keys_to_match[j], k)

\* {k: v for k, v in _state_dict.items() if not any(...)}: one pass over the
\* items in insertion order.
RECURSIVE FilterItems(_)
FilterItems(items) ==
    IF items = <<>> THEN <<>>
    ELSE LET kv == Head(items)
         IN  IF Excluded(kv[1])
             THEN FilterItems(Tail(items))
             ELSE <<kv>> \o FilterItems(Tail(items))

\* A plausible slip: the state_dict argument is ignored and the unwrapped
\* model is always snapshotted afresh.
SaveFresh(p, out_dir, state_dict) ==
    LET u  == unwrap_model(self_model)
        sd == StateDictOf(u.ret, p)
    IN  [ output_dir |-> out_dir,
          state_dict |-> FilterItems(sd.items),
          arg        |-> state_dict,
          source     |-> sd,
          unwrapped  |-> TRUE,
          steps      |-> u.steps ]

\* The call super()._save(output_dir, filtered_state_dict) that _save ends
\* with, for the arguments _save was given.  state_dict is <<>> for None and
\* <<sd>> for a snapshot.  arg, source, unwrapped and steps record how the
\* snapshot was obtained.
SaveRecord(p, out_dir, state_dict) ==
    IF state_dict = <<>>
    THEN LET u  == unwrap_model(self_model)
             sd == StateDictOf(u.ret, p)
         IN  [ output_dir |-> out_dir,
               state_dict |-> FilterItems(sd.items),
               arg        |-> state_dict,
               source     |-> sd,
               unwrapped  |-> TRUE,
               steps      |-> u.steps ]
    ELSE [ output_dir |-> out_dir,
           state_dict |-> FilterItems(state_dict[1].items),
           arg        |-> state_dict,
           source     |-> state_dict[1],
           unwrapped  |-> FALSE,
           steps      |-> 0 ]

\* _save called on process p (by save_model at line 52, or by the framework
\* itself), as far as this layer's state goes: the base class's _save is
\* called with the filtered snapshot.
DoSave(p, out_dir, state_dict) ==
    saved' = [saved EXCEPT ![p] = << SaveRecord(p, out_dir, state_dict) >>]

\* The framework calls trainer._save itself (the override is what runs):
\* without a snapshot, or with one of its own.
FrameworkSave(p, out_dir, state_dict) ==
    /\ p \in world
    /\ trainer \in {"base", "weighted"}
    /\ pc[p] = "idle"
    /\ DoSave(p, out_dir, state_dict)
    /\ UNCHANGED <<pc, call, output_dir, cpu_state_dict, sdType, joined, returned,
                   trace, delegated>>
    /\ UNCHANGED <<cfgVars, ctorVars, lossVars, uwVars>>

----------------------------------------------------------------------------
(* SensorLLMTrainer.save_model, lines 39-57 *)

args_output_dir == "args.output_dir"      \* self.args.output_dir
OutputDirs      == { None, "ckpt" }       \* what a caller passes as output_dir

Append1(f, p, e) == [f EXCEPT ![p] = Append(@, e)]

\* The arguments of super().save_model(output_dir, _internal_call), line 57.
BaseArgs(od, ic) == [ output_dir |-> od, internal_call |-> ic ]

\* Lines 40, 56-57: not sharded, the whole call is one call of the base class.
SaveModelBase(p, od, ic) ==
    /\ p \in world
    /\ trainer \in {"base", "weighted"}
    /\ pc[p] = "idle"
    /\ ~fsdp
    /\ call' = [call EXCEPT ![p] = << [output_dir |-> od, internal_call |-> ic] >>]
    /\ delegated' = [delegated EXCEPT ![p] = << BaseArgs(od, ic) >>]
    /\ trace' = [trace EXCEPT ![p] = << "super.save_model" >>]
    /\ UNCHANGED <<pc, output_dir, cpu_state_dict, sdType, joined, returned, saved>>
    /\ UNCHANGED <<cfgVars, ctorVars, lossVars, uwVars>>

\* Lines 40-49: sharded; output_dir gets its default and the
\* FSDP.state_dict_type context is entered.
SaveModelEnter(p, od, ic) ==
    /\ p \in world
    /\ trainer \in {"base", "weighted"}
    /\ pc[p] = "idle"
    /\ fsdp
    /\ joined[p] < MaxCalls
    /\ call' = [call EXCEPT ![p] = << [output_dir |-> od, internal_call |-> ic] >>]
    /\ output_dir' = [output_dir EXCEPT ![p] = IF od = None THEN args_output_dir ELSE od]
    /\ sdType' = [sdType EXCEPT ![p] = "FULL_STATE_DICT"]
    /\ trace' = [trace EXCEPT ![p] = << "enter" >>]
    /\ cpu_state_dict' = [cpu_state_dict EXCEPT ![p] = <<>>]
    /\ pc' = [pc EXCEPT ![p] = "collect"]
    /\ UNCHANGED <<joined, returned, saved, delegated>>
    /\ UNCHANGED <<cfgVars, ctorVars, lossVars, uwVars>>

\* Line 50, first half: p enters the collective self.model.state_dict().
StateDictBegin(p) ==
    /\ p \in world
    /\ pc[p] = "collect"
    /\ joined' = [joined EXCEPT ![p] = @ + 1]
    /\ pc' = [pc EXCEPT ![p] = "gather"]
    /\ UNCHANGED <<call, output_dir, cpu_state_dict, sdType, returned, trace,
                   saved, delegated>>
    /\ UNCHANGED <<cfgVars, ctorVars, lossVars, uwVars>>

\* The collective needs every process's shard: it can return on p only once
\* every process of the run has entered the same collective.  Nothing makes
\* it return on all processes at once.
Gathered(p) == \A q \in world : joined[q] >= joined[p]

\* Line 50, second half: the collective returns on p; cpu_state_dict is
\* assigned inside the context.
StateDictReturn(p) ==
    /\ p \in world
    /\ pc[p] = "gather"
    /\ Gathered(p)
    /\ returned' = [returned EXCEPT ![p] = @ + 1]
    /\ cpu_state_dict' = [cpu_state_dict EXCEPT ![p] = << StateDictOf(self_model, p) >>]
    /\ trace' = Append1(trace, p, "state_dict")
    /\ pc' = [pc EXCEPT ![p] = "exit"]
    /\ UNCHANGED <<call, output_dir, sdType, joined, saved, delegated>>
    /\ UNCHANGED <<cfgVars, ctorVars, lossVars, uwVars>>

\* A plausible slip: the rest of save_model indented into the `with` block,
\* so that the context is still open when _save runs.
CtxStaysOpen(p) ==
    /\ p \in world
    /\ pc[p] = "exit"
    /\ pc' = [pc EXCEPT ![p] = "save"]
    /\ UNCHANGED <<call, output_dir, cpu_state_dict, sdType, joined, returned,
                   trace, saved, delegated>>
    /\ UNCHANGED <<cfgVars, ctorVars, lossVars, uwVars>>

\* End of the `with` block of line 49: the context is left, the previous
\* state-dict type is back.
CtxExit(p) ==
    /\ p \in world
    /\ pc[p] = "exit"
    /\ sdType' = [sdType EXCEPT ![p] = "DEFAULT"]
    /\ trace' = Append1(trace, p, "exit")
    /\ pc' = [pc EXCEPT ![p] = "save"]
    /\ UNCHANGED <<call, output_dir, cpu_state_dict, joined, returned, saved, delegated>>
    /\ UNCHANGED <<cfgVars, ctorVars, lossVars, uwVars>>

\* Lines 51-52, should_save set: self._save(output_dir, state_dict=cpu_state_dict).
SaveLocal(p) ==
    /\ p \in world
    /\ pc[p] = "save"
    /\ should_save[p]
    /\ DoSave(p, output_dir[p], cpu_state_dict[p])
    /\ trace' = Append1(trace, p, "_save")
    /\ pc' = [pc EXCEPT ![p] = "push"]
    /\ UNCHANGED <<call, output_dir, cpu_state_dict, sdType, joined, returned, delegated>>
    /\ UNCHANGED <<cfgVars, ctorVars, lossVars, uwVars>>

\* A plausible slip: the should_save test left out.
SaveAnyway(p) ==
    /\ p \in world
    /\ pc[p] = "save"
    /\ ~should_save[p]
    /\ DoSave(p, output_dir[p], cpu_state_dict[p])
    /\ trace' = Append1(trace, p, "_save")
    /\ pc' = [pc EXCEPT ![p] = "push"]
    /\ UNCHANGED <<call, output_dir, cpu_state_dict, sdType, joined, returned, delegated>>
    /\ UNCHANGED <<cfgVars, ctorVars, lossVars, uwVars>>

\* Line 51, should_save not set: nothing is written.
SkipSave(p) ==
    /\ p \in world
    /\ pc[p] = "save"
    /\ ~should_save[p]
    /\ pc' = [pc EXCEPT ![p] = "push"]
    /\ UNCHANGED <<call, output_dir, cpu_state_dict, sdType, joined, returned,
                   trace, saved, delegated>>
    /\ UNCHANGED <<cfgVars, ctorVars, lossVars, uwVars>>

\* A plausible slip: `not _internal_call` left out of the test.
PushCondNoInternal(p) == push_to_hub

\* Line 54: self.args.push_to_hub and not _internal_call
PushCond(p) == push_to_hub /\ ~call[p][1].internal_call

\* Lines 54-55, test true: self.push_to_hub(commit_message="Model save"); the
\* call returns.
Push(p) ==
    /\ p \in world
    /\ pc[p] = "push"
    /\ PushCond(p)
    /\ trace' = Append1(trace, p, "push_to_hub:Model save")
    /\ pc' = [pc EXCEPT ![p] = "idle"]
    /\ UNCHANGED <<call, output_dir, cpu_state_dict, sdType, joined, returned,
                   saved, delegated>>
    /\ UNCHANGED <<cfgVars, ctorVars, lossVars, uwVars>>

\* Line 54, test false: the call returns.
SkipPush(p) ==
    /\ p \in world
    /\ pc[p] = "push"
    /\ ~PushCond(p)
    /\ pc' = [pc EXCEPT ![p] = "idle"]
    /\ UNCHANGED <<call, output_dir, cpu_state_dict, sdType, joined, returned,
                   trace, saved, delegated>>
    /\ UNCHANGED <<cfgVars, ctorVars, lossVars, uwVars>>

----------------------------------------------------------------------------
(* SensorLLMWeightedCELossTrainer.__init__, lines 61-66 *)

\* class_weights as the caller passes it: None, or a sequence (weights in
\* tenths: <<2, 8>> is [0.2, 0.8]).
WeightArgs ==
    { NoneW, Some(<<>>), Some(<<2, 8>>), Some(<<8, 2>>), Some(<<1, 1, 1>>) }

\* A plausible slip: the assertion of line 64 left out.
ConstructNoAssert(cw) ==
    /\ trainer = "none"
    /\ ctorArg' = cw
    /\ trainer' = "weighted"
    /\ class_weights' = cw
    /\ UNCHANGED <<cfgVars, saveVars, lossVars, uwVars>>

\* super().__init__ runs, then the assertion: with None the constructor
\* raises AssertionError before self.class_weights is assigned, and the
\* caller gets no instance.
Construct(cw) ==
    /\ trainer = "none"
    /\ ctorArg' = cw
    /\ IF cw = NoneW
       THEN /\ trainer' = "failed"
            /\ UNCHANGED class_weights
       ELSE /\ trainer' = "weighted"
            /\ class_weights' = cw
    /\ UNCHANGED <<cfgVars, saveVars, lossVars, uwVars>>

----------------------------------------------------------------------------
(* SensorLLMWeightedCELossTrainer.compute_loss, lines 68-85 *)

num_labels == 2                  \* self.model.config.num_labels

Devices == { "cpu", "cuda:0" }
Dtypes  == { "float32", "bfloat16" }
Fields  == { "labels", "input_ids", "attention_mask" }

\* A batch: a mapping from some fields to their tensors.
InputsOf(S) == [f \in S |-> "tensor:" \o f]
InputsSet ==
    { InputsOf(S) : S \in { {}, {"input_ids"}, {"labels"}, {"labels", "input_ids"}, Fields } }

\* The `model` argument, as far as compute_loss reads it.
ModelArgs == { [device |-> d] : d \in Devices }

\* What the forward pass returns: outputs.get('logits') is None (<<>>) or a
\* tensor on some device with some dtype.
OutputsSet ==
    { [logits |-> <<>>] }
    \cup { [logits |-> << [device |-> d, dtype |-> t] >>] : d \in Devices, t \in Dtypes }

Raise(inputs, fwd, weight, exc) ==
    [ inputs |-> inputs, fwd |-> fwd, weight |-> weight, cw |-> class_weights,
      ret |-> [kind |-> "raise", exc |-> exc, loss |-> <<>>, outputs |-> <<>>] ]

\* A plausible slip: self.class_weights replaced by the tensor built from it.
WeightsStored(weight) == Some(<<weight>>)

\* self.class_weights after line 81: the attribute is read, never assigned.
WeightsAfter(weight) == class_weights

\* torch.tensor(self.class_weights, device=model.device, dtype=logits.dtype)
WeightTensor(model, logits) ==
    [ data |-> class_weights[2], device |-> model.device, dtype |-> logits.dtype ]

\* A plausible slip: labels read with inputs["labels"], not popped.
compute_loss_keep(model, inputs, outputs, return_outputs) ==
    IF "labels" \notin DOMAIN inputs
    THEN Raise(inputs, <<>>, <<>>, "KeyError")
    ELSE IF outputs.logits = <<>>
    THEN Raise(inputs, <<inputs>>, <<>>, "AttributeError")
    ELSE LET logits == outputs.logits[1]
             weight == WeightTensor(model, logits)
             loss   == [logits |-> logits, labels |-> inputs["labels"], weight |-> weight]
         IN  IF weight.device # logits.device \/ Len(weight.data) # num_labels
             THEN Raise(inputs, <<inputs>>, <<weight>>, "RuntimeError")
             ELSE [ inputs |-> inputs, fwd |-> <<inputs>>, weight |-> <<weight>>,
                    cw |-> class_weights,
                    ret |-> [ kind |-> IF return_outputs THEN "pair" ELSE "loss",
                              exc |-> "", loss |-> <<loss>>,
                              outputs |-> IF return_outputs THEN <<outputs>> ELSE <<>> ] ]

\* What one call does: the caller's mapping afterwards (inputs), what the
\* forward pass received (fwd), the weight tensor built (weight),
\* self.class_weights afterwards (cw), and the outcome (ret): the loss, the
\* pair (loss, outputs), or the exception that leaves the call.
compute_loss(model, inputs, outputs, return_outputs) ==
    IF "labels" \notin DOMAIN inputs
    THEN \* line 70: inputs.pop("labels") raises KeyError
         Raise(inputs, <<>>, <<>>, "KeyError")
    ELSE
    LET labels == inputs["labels"]
        rest   == [f \in (DOMAIN inputs) \ {"labels"} |-> inputs[f]]
    IN  \* line 73: the forward pass gets the mapping without labels
        IF outputs.logits = <<>>
        THEN \* line 81: logits is None, logits.dtype raises AttributeError
             Raise(rest, <<rest>>, <<>>, "AttributeError")
        ELSE IF class_weights = NoneW
        THEN \* line 79
             Raise(rest, <<rest>>, <<>>, "AssertionError")
        ELSE
        LET logits == outputs.logits[1]
            weight == WeightTensor(model, logits)
            loss   == [logits |-> logits, labels |-> labels, weight |-> weight]
        IN  \* line 83: cross entropy needs the weight on the logits' device,
            \* one weight per class
            IF weight.device # logits.device \/ Len(weight.data) # num_labels
            THEN [Raise(rest, <<rest>>, <<weight>>, "RuntimeError")
                     EXCEPT !.cw = WeightsAfter(weight)]
            ELSE [ inputs |-> rest, fwd |-> <<rest>>, weight |-> <<weight>>,
                   cw |-> WeightsAfter(weight),
                   ret |-> [ kind |-> IF return_outputs THEN "pair" ELSE "loss",
                             exc |-> "", loss |-> <<loss>>,
                             outputs |-> IF return_outputs THEN <<outputs>> ELSE <<>> ] ]

ComputeLoss(model, inputs, outputs, return_outputs) ==
    /\ trainer = "weighted"
    /\ pc[1] = "idle"
    /\ LET r == compute_loss(model, inputs, outputs, return_outputs)
       IN  /\ lossCall' = << [ model |-> model, inputs |-> inputs, outputs |-> outputs,
                               return_outputs |-> return_outputs ] >>
           /\ lossInputs' = r.inputs
           /\ lossFwd' = r.fwd
           /\ lossWeight' = r.weight
           /\ lossRet' = << r.ret >>
           /\ class_weights' = r.cw
    /\ UNCHANGED <<trainer, ctorArg>>
    /\ UNCHANGED <<cfgVars, saveVars, uwVars>>

----------------------------------------------------------------------------
(* Initial states *)

\* A chain of depth d: model 1 wraps 2, ..., d wraps d+1, which wraps nothing.
LinearChain(d) == [m \in Models |-> IF m <= d THEN m + 1 ELSE NoAttr]

InitSave ==
    /\ pc = [p \in Procs |-> "idle"]
    /\ call = [p \in Procs |-> <<>>]
    /\ output_dir = [p \in Procs |-> None]
    /\ cpu_state_dict = [p \in Procs |-> <<>>]
    /\ sdType = [p \in Procs |-> "DEFAULT"]
    /\ joined = [p \in Procs |-> 0]
    /\ returned = [p \in Procs |-> 0]
    /\ trace = [p \in Procs |-> <<>>]
    /\ saved = [p \in Procs |-> <<>>]
    /\ delegated = [p \in Procs |-> <<>>]

InitLoss ==
    /\ lossCall = <<>>
    /\ lossInputs = <<>>
    /\ lossFwd = <<>>
    /\ lossWeight = <<>>
    /\ lossRet = <<>>

InitUnwrap ==
    /\ uwArg = self_model
    /\ uwRes = <<>>

\* One process holding a constructed SensorLLMTrainer; the model is bare or
\* wrapped once.
Init ==
    /\ module \in { LinearChain(d) : d \in 0..1 }
    /\ params = SampleParams
    /\ fsdp \in BOOLEAN
    /\ push_to_hub \in BOOLEAN
    /\ should_save \in { [p \in Procs |-> b] : b \in BOOLEAN }
    /\ world = {1}
    /\ trainer = "base"
    /\ class_weights = Unset
    /\ ctorArg = Unset
    /\ InitSave /\ InitLoss /\ InitUnwrap

ShardedSteps(p) ==
    \/ StateDictBegin(p)
    \/ StateDictReturn(p)
    \/ CtxExit(p)
    \/ SaveLocal(p)
    \/ SkipSave(p)
    \/ Push(p)
    \/ SkipPush(p)

Next ==
    \E p \in Procs :
        \/ \E od \in OutputDirs, ic \in BOOLEAN : SaveModelBase(p, od, ic)
        \/ \E od \in OutputDirs, ic \in BOOLEAN : SaveModelEnter(p, od, ic)
        \/ ShardedSteps(p)
        \/ \E od \in OutputDirs, sd \in { <<>>, << Explicit(SampleParams) >> } :
               FrameworkSave(p, od, sd)

Spec == Init /\ [][Next]_vars

\* Every process of a fully sharded run holds a constructed SensorLLMTrainer
\* around a model wrapped once.
InitDist ==
    /\ module = LinearChain(1)
    /\ params = SampleParams
    /\ fsdp = TRUE
    /\ push_to_hub \in BOOLEAN
    /\ should_save \in [Procs -> BOOLEAN]
    /\ world = Procs
    /\ trainer = "base"
    /\ class_weights = Unset
    /\ ctorArg = Unset
    /\ InitSave /\ InitLoss /\ InitUnwrap

NextDist ==
    \E p \in Procs :
        \/ \E a \in { <<None, FALSE>>, <<"ckpt", TRUE>> } : SaveModelEnter(p, a[1], a[2])
        \/ ShardedSteps(p)

SpecDist == InitDist /\ [][NextDist]_vars

\* One trainer, any wrapping depth, any snapshot in the model.
InitSaveOnly ==
    /\ module \in { LinearChain(d) : d \in 0..(MaxModels - 1) }
    /\ params \in StateDicts
    /\ fsdp = FALSE
    /\ push_to_hub = FALSE
    /\ should_save = [p \in Procs |-> TRUE]
    /\ world = {1}
    /\ trainer = "base"
    /\ class_weights = Unset
    /\ ctorArg = Unset
    /\ InitSave /\ InitLoss /\ InitUnwrap

\* _save keeps nothing from one call to the next: one call from every initial
\* state covers every call.
NextSaveOnly ==
    \E od \in OutputDirs, sd \in { <<>> } \cup { << Explicit(i) >> : i \in StateDicts } :
        saved[1] = <<>> /\ FrameworkSave(1, od, sd)

SpecSave == InitSaveOnly /\ [][NextSaveOnly]_vars

\* No trainer yet; the weighted-loss variant is constructed, then used alone.
InitLossOnly ==
    /\ module = LinearChain(1)
    /\ params = SampleParams
    /\ fsdp \in BOOLEAN
    /\ push_to_hub = TRUE
    /\ should_save \in { [p \in Procs |-> b] : b \in BOOLEAN }
    /\ world = {1}
    /\ trainer = "none"
    /\ class_weights = Unset
    /\ ctorArg = Unset
    /\ InitSave /\ InitLoss /\ InitUnwrap

\* compute_loss reads the trainer and writes nothing to it: one call per run,
\* placed anywhere among the save operations, covers every call.
NextLossOnly ==
    \/ \E cw \in WeightArgs : Construct(cw)
    \/ \E m \in ModelArgs, i \in InputsSet, o \in OutputsSet, r \in BOOLEAN :
           lossCall = <<>> /\ ComputeLoss(m, i, o, r)
    \/ \E a \in { <<None, FALSE>>, <<"ckpt", TRUE>> } : SaveModelBase(1, a[1], a[2])
    \/ \E a \in { <<None, FALSE>>, <<"ckpt", TRUE>> } : SaveModelEnter(1, a[1], a[2])
    \/ ShardedSteps(1)
    \/ FrameworkSave(1, None, <<>>)

SpecLoss == InitLossOnly /\ [][NextLossOnly]_vars

----------------------------------------------------------------------------
(* unwrap_model on every wrapping relation *)

\* Where k uses of `.module` lead from m in h (NoAttr once the chain ended).
RECURSIVE Follow(_, _, _)
Follow(h, m, k) == IF k = 0 \/ m = NoAttr THEN m ELSE Follow(h, h[m], k - 1)

\* Wrapping chains are finite: no model wraps itself through others.
Acyclic(h) == \A m \in Models : Follow(h, m, MaxModels) = NoAttr

UnwrapCall(m) ==
    /\ uwArg' = m
    /\ uwRes' = << unwrap_model(m) >>
    /\ UNCHANGED <<cfgVars, ctorVars, saveVars, lossVars>>

InitUnwrapOnly ==
    /\ module \in { h \in [Models -> Models \cup {NoAttr}] : Acyclic(h) }
    /\ params = SampleParams
    /\ fsdp = FALSE
    /\ push_to_hub = FALSE
    /\ should_save = [p \in Procs |-> TRUE]
    /\ world = {1}
    /\ trainer = "base"
    /\ class_weights = Unset
    /\ ctorArg = Unset
    /\ InitSave /\ InitLoss /\ InitUnwrap

NextUnwrapOnly == \E m \in Models : UnwrapCall(m)

SpecUnwrap == InitUnwrapOnly /\ [][NextUnwrapOnly]_vars

----------------------------------------------------------------------------
(* Properties *)

Marker == "pt_encoder_backbone"

\* k is some prefix, then the marker, then some suffix.
HasMarker(k) ==
    \E n \in 0..Len(k) :
        k = SubSeq(k, 1, n) \o Marker \o SubSeq(k, n + Len(Marker) + 1, Len(k))

KeysOf(items) == { items[i][1] : i \in DOMAIN items }
IndexOf(items, k) == CHOOSE i \in DOMAIN items : items[i][1] = k

\* C1: whatever snapshot S _save works on (the one it was given, or the
\* model's when it was given none), the mapping F it hands to the base class's
\* _save holds exactly the keys of S that do not contain
\* "pt_encoder_backbone", each with the value it has in S, in the order they
\* have in S; when no key of S contains the marker, F is S.
C1_FilterExact ==
    saved[1] # <<>> =>
        LET r == saved[1][1]
            S == r.source.items
            F == r.state_dict
        IN  /\ S = IF r.arg = <<>> THEN params ELSE r.arg[1].items
            /\ KeysOf(F) = { k \in KeysOf(S) : ~HasMarker(k) }
            /\ \A i, j \in DOMAIN F : i # j => F[i][1] # F[j][1]
            /\ \A i \in DOMAIN F : F[i] = S[IndexOf(S, F[i][1])]
            /\ \A i, j \in DOMAIN F :
                   i < j => IndexOf(S, F[i][1]) < IndexOf(S, F[j][1])
            /\ (\A k \in KeysOf(S) : ~HasMarker(k)) => F = S

\* A snapshot with the marker inside one key (not at its start) and a key
\* without it went through _save.
C1_Witness ==
    /\ saved[1] # <<>>
    /\ saved[1][1].arg # <<>>
    /\ KeysOf(saved[1][1].source.items) =
           { "model.pt_encoder_backbone.proj", "pt_encoder_backbon.e" }
    /\ Len(saved[1][1].state_dict) = 1

Has(seq, e) == \E i \in DOMAIN seq : seq[i] = e
Count(seq, e) == Cardinality({ i \in DOMAIN seq : seq[i] = e })
Pos(seq, e) == CHOOSE i \in DOMAIN seq : seq[i] = e

PushEvent == "push_to_hub:Model save"

\* C2: save_model calls its own _save only when sharded and should_save;
\* sharded without should_save, the call never reaches _save; not sharded, the
\* call is exactly one call of the base class's save_model with the
\* output_dir and _internal_call it was given, and no collection, no _save
\* and no publish of this layer's own.
C2_LocalWriteOnlyShardedCoordinator ==
    \A p \in world :
        /\ Has(trace[p], "_save") => fsdp /\ should_save[p]
        /\ (fsdp /\ ~should_save[p]) => ~Has(trace[p], "_save")
        /\ (~fsdp /\ call[p] # <<>>) =>
               /\ trace[p] = << "super.save_model" >>
               /\ delegated[p] = call[p]
               /\ pc[p] = "idle"
               /\ joined[p] = 0 /\ returned[p] = 0
               /\ cpu_state_dict[p] = <<>>
               /\ sdType[p] = "DEFAULT"
        /\ fsdp => delegated[p] = <<>>

\* A sharded call on a process that must not save ran to its end.
C2_Witness ==
    /\ fsdp
    /\ ~should_save[1]
    /\ pc[1] = "idle"
    /\ Has(trace[1], "exit")
    /\ saved[1] = <<>>

\* C4: this layer publishes (push_to_hub, commit message "Model save") only
\* in a call with args.push_to_hub set and _internal_call false; a sharded
\* call of that kind publishes exactly once, as its last step, after the
\* collection context was left and after the call's _save if there was one;
\* no other call publishes.
C4_PushOnlyUserCalls ==
    \A p \in world :
        /\ Count(trace[p], PushEvent) <= 1
        /\ Has(trace[p], PushEvent) =>
               /\ fsdp /\ push_to_hub /\ ~call[p][1].internal_call
               /\ Pos(trace[p], PushEvent) = Len(trace[p])
               /\ Has(trace[p], "exit")
               /\ Pos(trace[p], "exit") < Pos(trace[p], PushEvent)
               /\ Has(trace[p], "_save") =>
                      Pos(trace[p], "_save") < Pos(trace[p], PushEvent)
               /\ should_save[p] => Has(trace[p], "_save")
               /\ pc[p] = "idle"
        /\ (fsdp /\ call[p] # <<>> /\ pc[p] = "idle") =>
               (Has(trace[p], PushEvent) <=> (push_to_hub /\ ~call[p][1].internal_call))
        /\ (call[p] # <<>> /\ (~push_to_hub \/ call[p][1].internal_call)) =>
               ~Has(trace[p], PushEvent)

\* A sharded user call that saved locally and then published.
C4_Witness ==
    /\ Has(trace[1], PushEvent)
    /\ Has(trace[1], "_save")
    /\ joined[1] = MaxCalls

\* The model at the end of the wrapping chain that starts at m.
Innermost(m) ==
    CHOOSE x \in Models :
        /\ module[x] = NoAttr
        /\ \E k \in 0..MaxModels : Follow(module, m, k) = x

\* C10: _save given a snapshot uses that snapshot and neither unwraps nor
\* snapshots the model; given none it unwraps the model and snapshots the
\* innermost one.  So what a sharded save_model filters and writes is the
\* snapshot collected inside the context from self.model, not a fresh one of
\* the unwrapped model.
C10_ExplicitStateUsed ==
    \A p \in world :
        saved[p] # <<>> =>
            LET r == saved[p][1] IN
            /\ r.arg # <<>> =>
                   /\ r.source = r.arg[1]
                   /\ ~r.unwrapped
                   /\ r.steps = 0
            /\ r.arg = <<>> =>
                   /\ r.unwrapped
                   /\ r.source.of = Innermost(self_model)
                   /\ r.source.items = params
            /\ (pc[p] = "push" /\ Has(trace[p], "_save")) =>
                   /\ r.arg = cpu_state_dict[p]
                   /\ r.source = cpu_state_dict[p][1]
                   /\ r.source.type = "FULL_STATE_DICT"
                   /\ r.source.of = self_model
                   /\ r.output_dir = output_dir[p]

\* A sharded save_model of a wrapped model has just written.
C10_Witness ==
    /\ pc[1] = "push"
    /\ Has(trace[1], "_save")
    /\ module[self_model] # NoAttr

\* p is at the file-write step: about to call _save, or just back from it.
AtWrite(p) ==
    \/ pc[p] = "save" /\ should_save[p]
    \/ pc[p] = "push" /\ Has(trace[p], "_save")

\* Every process that got past the `with` block entered the context, took
\* its snapshot inside it and left it, whatever its should_save flag.
CollectedInContext(p) ==
    pc[p] \in {"save", "push"} =>
        /\ Len(trace[p]) >= 3
        /\ SubSeq(trace[p], 1, 3) = << "enter", "state_dict", "exit" >>
        /\ cpu_state_dict[p] # <<>>
        /\ cpu_state_dict[p][1].type = "FULL_STATE_DICT"
        /\ sdType[p] = "DEFAULT"
        /\ returned[p] = joined[p]

C5_NoneRejected ==
    /\ ctorArg = NoneW =>
           /\ trainer = "failed"
           /\ class_weights = Unset
           /\ lossCall = <<>>
    /\ trainer = "failed" => ctorArg = NoneW
    /\ lossCall # <<>> => trainer = "weighted" /\ ctorArg # NoneW

\* The constructor was called with None.
C5_Witness == ctorArg = NoneW /\ trainer = "failed"

\* C6 as stated: a constructed weighted-loss trainer holds class_weights that
\* is not None and not empty, and nothing changes it after construction.
C6_NonEmptyImmutable ==
    trainer = "weighted" =>
        /\ class_weights = ctorArg
        /\ class_weights[1] = "Some"
        /\ Len(class_weights[2]) > 0

\* C6, amended: a constructed weighted-loss trainer holds class_weights that
\* is not None (it may be empty), and nothing (compute_loss, _save,
\* save_model) changes it after construction; construction with an empty
\* sequence succeeds.
C6_NonNullImmutable ==
    /\ trainer = "weighted" =>
           /\ class_weights = ctorArg
           /\ class_weights[1] = "Some"
    /\ ctorArg = Some(<<>>) => trainer = "weighted"

\* A trainer constructed with weights went through compute_loss (which built
\* the weight tensor), save_model and _save.
C6_Witness ==
    /\ trainer = "weighted"
    /\ class_weights = Some(<<2, 8>>)
    /\ lossWeight # <<>>
    /\ saved[1] # <<>>
    /\ Has(trace[1], "_save")

\* C8: the forward pass gets the inputs without "labels" and with every
\* other field as it was; the caller's mapping loses "labels" and nothing
\* else; a call that returns gives (loss, outputs) when return_outputs is
\* true and the loss alone otherwise.
C8_LabelsPopped ==
    lossCall # <<>> =>
        LET c    == lossCall[1]
            r    == lossRet[1]
            rest == (DOMAIN c.inputs) \ {"labels"}
        IN  /\ lossFwd # <<>> <=> "labels" \in DOMAIN c.inputs
            /\ lossFwd # <<>> =>
                   /\ DOMAIN lossFwd[1] = rest
                   /\ \A f \in rest : lossFwd[1][f] = c.inputs[f]
            /\ DOMAIN lossInputs = rest
            /\ \A f \in rest : lossInputs[f] = c.inputs[f]
            /\ r.kind # "raise" =>
                   /\ lossFwd # <<>>
                   /\ r.loss # <<>>
                   /\ r.loss[1].labels = c.inputs["labels"]
                   /\ c.return_outputs => r.kind = "pair" /\ r.outputs = << c.outputs >>
                   /\ ~c.return_outputs => r.kind = "loss" /\ r.outputs = <<>>

\* A full batch went through and the pair came back.
C8_Witness ==
    /\ lossCall # <<>>
    /\ DOMAIN lossCall[1].inputs = Fields
    /\ lossRet[1].kind = "pair"

\* C9 as stated: the weight tensor handed to the cross entropy is on the
\* device of the logits and has their dtype.
C9_WeightOnLogitsDevice ==
    lossWeight # <<>> =>
        /\ lossWeight[1].device = lossCall[1].outputs.logits[1].device
        /\ lossWeight[1].dtype = lossCall[1].outputs.logits[1].dtype

\* The models the chain from m goes through, m included.
Chain(m) == { x \in Models : \E k \in 0..MaxModels : Follow(module, m, k) = x }

UnwrapCorrect ==
    uwRes # <<>> =>
        LET r == uwRes[1]
            d == Cardinality(Chain(uwArg)) - 1
        IN  /\ r.steps = d
            /\ r.ret \in Chain(uwArg)
            /\ module[r.ret] = NoAttr
            /\ \A x \in Chain(uwArg) : module[x] = NoAttr => x = r.ret
            /\ d = 0 => r.ret = uwArg

\* C7: on a chain of depth d unwrap_model follows `module` d times and
\* returns the one model of the chain that wraps nothing (its argument when
\* d = 0), and it changes no model.
C7_UnwrapInnermost == []UnwrapCorrect /\ [][module' = module]_vars

\* A chain of the greatest depth was unwrapped.
C7_Witness ==
    /\ uwRes # <<>>
    /\ uwRes[1].steps = MaxModels - 1

====
